---- MODULE Spec2Model ----
(***************************************************************************)
(* State-machine model of the commitment-pool Anchor program               *)
(* (programs/commitment-pool/src).  One action per instruction handler.    *)
(* A transaction is atomic: a handler that returns an error, or whose      *)
(* account constraints fail, leaves every account as it was; only the      *)
(* outcome of the call (the variable last) records that it happened.       *)
(***************************************************************************)
EXTENDS Integers, FiniteSets, Sequences, TLC

\* ------------------------------------------------------------------------
\* Bounds of the model
\* ------------------------------------------------------------------------
NumWallets == 2

InitLamports == 4

\* ------------------------------------------------------------------------
\* Program constants
\* ------------------------------------------------------------------------
SECONDS_PER_DAY == 86400

MAX_DURATION_DAYS == 30

MAX_POOL_PARTICIPANTS == 100

MAX_WINNER_PERCENT == 100

\* ------------------------------------------------------------------------
\* Input domains
\* ------------------------------------------------------------------------
Wallets == 1..NumWallets

CharityKey == NumWallets + 1

Keys == Wallets \cup {CharityKey}

PoolIds == {1}

\* Wallets that sign create_pool.
Creators == {1}

Competitive == [kind |-> "Competitive", winner_percent |-> 0]

Charity == [kind |-> "Charity", winner_percent |-> 0]

Split(p) == [kind |-> "Split", winner_percent |-> p]

Config(s, d, mx, mn, m) ==
    [stake_amount |-> s, duration_days |-> d, max_participants |-> mx,
     min_participants |-> mn, distribution_mode |-> m]

\* Arguments of create_pool that pass validation.
ValidConfigs ==
    {Config(2, 3, 2, 1, Competitive), Config(2, 3, 1, 1, Competitive),
     Config(2, 3, 1, 1, Charity), Config(2, 3, 1, 1, Split(60)),
     Config(5, 3, 1, 1, Charity)}

\* Arguments of create_pool that break one validation rule each.
InvalidConfigs ==
    {Config(0, 3, 2, 1, Charity), Config(2, 0, 2, 1, Charity),
     Config(2, 31, 2, 1, Charity), Config(2, 3, 0, 1, Charity),
     Config(2, 3, 101, 1, Charity), Config(2, 3, 2, 0, Charity),
     Config(2, 3, 2, 3, Charity), Config(2, 3, 2, 1, Split(101))}

ConfigChoices == ValidConfigs \cup InvalidConfigs

GoalChoices == {"LifestyleHabit"}

DayChoices == 0..4

\* Clock readings sampled by the model (unix seconds).
TimePoints == {0, 259200}

NoAccount == [exists |-> FALSE]

\* The outcome of the latest instruction: which handler ran, for which pool
\* and participant wallet, who signed, the reported outcome (verify_participant)
\* and the error returned ("Ok" on success).
NoCall == [op |-> "none", pool |-> 0, wallet |-> 0, signer |-> 0,
           passed |-> FALSE, err |-> "Ok"]

VARIABLES pools, participants, lamports, vault, now, last

vars == <<pools, participants, lamports, vault, now, last>>

accounts == <<pools, participants, lamports, vault>>

Call(op, p, w, s, b, e) ==
    [op |-> op, pool |-> p, wallet |-> w, signer |-> s,
     passed |-> b, err |-> e]

Init ==
    /\ pools = [p \in PoolIds |-> NoAccount]
    /\ participants = [k \in PoolIds \X Wallets |-> NoAccount]
    /\ lamports = [k \in Keys |-> IF k \in Wallets THEN InitLamports ELSE 0]
    /\ vault = [p \in PoolIds |-> 0]
    /\ now = 0
    /\ last = NoCall

\* ------------------------------------------------------------------------
\* Clock sysvar: monotonic
\* ------------------------------------------------------------------------
Tick ==
    /\ \E t \in TimePoints : t > now /\ now' = t
    /\ UNCHANGED <<accounts, last>>

\* ------------------------------------------------------------------------
\* create_pool
\* ------------------------------------------------------------------------
PoolInitAllowedAlways(p) == TRUE

\* #[account(init, ...)] on the pool PDA: fails when the account exists.
PoolInitAllowed(p) == ~pools[p].exists

\* c holds the instruction's arguments stake_amount, duration_days,
\* max_participants, min_participants and distribution_mode.
CreatePoolError(p, c) ==
    IF ~PoolInitAllowed(p) THEN "AccountInUse"
    ELSE IF ~(c.stake_amount > 0) THEN "InvalidStakeAmount"
    ELSE IF ~(c.duration_days > 0 /\ c.duration_days <= MAX_DURATION_DAYS)
        THEN "InvalidStakeAmount"
    ELSE IF ~(c.max_participants > 0
                /\ c.max_participants <= MAX_POOL_PARTICIPANTS)
        THEN "InvalidStakeAmount"
    ELSE IF ~(c.min_participants > 0
                /\ c.min_participants <= c.max_participants)
        THEN "InvalidStakeAmount"
    ELSE IF c.distribution_mode.kind = "Split"
            /\ ~(c.distribution_mode.winner_percent <= MAX_WINNER_PERCENT)
        THEN "InvalidStakeAmount"
    ELSE "Ok"

NewPool(authority, p, goal_type, c, charity_address) ==
    [exists |-> TRUE,
     authority |-> authority,
     pool_id |-> p,
     goal_type |-> goal_type,
     stake_amount |-> c.stake_amount,
     duration_days |-> c.duration_days,
     max_participants |-> c.max_participants,
     min_participants |-> c.min_participants,
     participant_count |-> 0,
     total_staked |-> 0,
     charity_address |-> charity_address,
     distribution_mode |-> c.distribution_mode,
     pool_status |-> "Pending",
     start_timestamp |-> now,
     end_timestamp |-> now + c.duration_days * SECONDS_PER_DAY]

CreatePool ==
    \E authority \in Creators, p \in PoolIds, goal_type \in GoalChoices,
       c \in ConfigChoices, charity_address \in {CharityKey} :
        LET err == CreatePoolError(p, c)
        IN /\ last' = Call("create_pool", p, 0, authority, FALSE, err)
           /\ IF err = "Ok"
                THEN pools' = [pools EXCEPT ![p] =
                        NewPool(authority, p, goal_type, c, charity_address)]
                ELSE UNCHANGED pools
           /\ UNCHANGED <<participants, lamports, vault, now>>

\* ------------------------------------------------------------------------
\* join_pool
\* ------------------------------------------------------------------------
\* #[account(init, ...)] on the participant PDA (pool, wallet): fails when the
\* account exists.
ParticipantInitAllowedAlways(p, w) == TRUE

ParticipantInitAllowed(p, w) == ~participants[<<p, w>>].exists

JoinStatusOk(pool) == pool.pool_status \in {"Pending", "Active"}

PoolHasRoomInclusive(pool) == pool.participant_count <= pool.max_participants

PoolHasRoom(pool) == pool.participant_count < pool.max_participants

JoinPoolError(p, w) ==
    IF ~pools[p].exists THEN "AccountNotInitialized"
    ELSE IF ~ParticipantInitAllowed(p, w) THEN "AccountInUse"
    ELSE IF ~JoinStatusOk(pools[p]) THEN "PoolNotActive"
    ELSE IF ~PoolHasRoom(pools[p]) THEN "PoolFull"
    ELSE IF lamports[w] < pools[p].stake_amount THEN "InsufficientFunds"
    ELSE "Ok"

\* The handler sets pool, wallet, stake_amount and bump; the other fields keep
\* the zero bytes of the freshly created account: join_timestamp 0, status the
\* first variant (Active), days_verified 0.
NewParticipant(p, w, pool) ==
    [exists |-> TRUE,
     pool |-> p,
     wallet |-> w,
     stake_amount |-> pool.stake_amount,
     join_timestamp |-> 0,
     status |-> "Active",
     days_verified |-> 0]

JoinTotalStakedByOne(pool) == pool.total_staked + 1

JoinTotalStaked(pool) == pool.total_staked + pool.stake_amount

JoinStatusKeep(pool) == pool.pool_status

JoinStatus(pool) ==
    IF pool.pool_status = "Pending" THEN "Active" ELSE pool.pool_status

JoinedPoolLostIncrement(pool) ==
    [pool EXCEPT !.participant_count =
                    IF pool.participant_count = 0 THEN 1
                    ELSE pool.participant_count,
                 !.total_staked = JoinTotalStaked(pool),
                 !.pool_status = JoinStatus(pool)]

JoinedPool(pool) ==
    [pool EXCEPT !.participant_count = pool.participant_count + 1,
                 !.total_staked = JoinTotalStaked(pool),
                 !.pool_status = JoinStatus(pool)]

\* join_pool without the rollback of a failed transaction: the participant
\* account that init created stays when the handler returns an error.
JoinPoolNoRollback ==
    \E p \in PoolIds, w \in Wallets :
        LET err == JoinPoolError(p, w)
            created == pools[p].exists /\ ParticipantInitAllowed(p, w)
        IN /\ last' = Call("join_pool", p, w, w, FALSE, err)
           /\ IF err = "Ok"
                THEN /\ lamports' = [lamports EXCEPT
                            ![w] = lamports[w] - pools[p].stake_amount]
                     /\ vault' = [vault EXCEPT
                            ![p] = vault[p] + pools[p].stake_amount]
                     /\ participants' = [participants EXCEPT
                            ![<<p, w>>] = NewParticipant(p, w, pools[p])]
                     /\ pools' = [pools EXCEPT ![p] = JoinedPool(pools[p])]
                ELSE /\ participants' =
                          IF created
                            THEN [participants EXCEPT
                                    ![<<p, w>>] = NewParticipant(p, w, pools[p])]
                            ELSE participants
                     /\ UNCHANGED <<pools, lamports, vault>>
           /\ UNCHANGED now

JoinPool ==
    \E p \in PoolIds, w \in Wallets :
        LET err == JoinPoolError(p, w)
        IN /\ last' = Call("join_pool", p, w, w, FALSE, err)
           /\ IF err = "Ok"
                THEN /\ lamports' = [lamports EXCEPT
                            ![w] = lamports[w] - pools[p].stake_amount]
                     /\ vault' = [vault EXCEPT
                            ![p] = vault[p] + pools[p].stake_amount]
                     /\ participants' = [participants EXCEPT
                            ![<<p, w>>] = NewParticipant(p, w, pools[p])]
                     /\ pools' = [pools EXCEPT ![p] = JoinedPool(pools[p])]
                ELSE UNCHANGED accounts
           /\ UNCHANGED now

\* ------------------------------------------------------------------------
\* verify_participant
\* ------------------------------------------------------------------------
Max(a, b) == IF a >= b THEN a ELSE b

VerifyParticipantActiveAlways(part) == TRUE

VerifyParticipantActive(part) == part.status = "Active"

VerifyDayValidNoLower(day, pool) == day <= pool.duration_days

VerifyDayValid(day, pool) == day > 0 /\ day <= pool.duration_days

VerifyParticipantError(p, w, day) ==
    IF ~pools[p].exists \/ ~participants[<<p, w>>].exists
        THEN "AccountNotInitialized"
    ELSE IF pools[p].pool_status # "Active" THEN "PoolNotActive"
    ELSE IF ~VerifyParticipantActive(participants[<<p, w>>]) THEN "PoolNotActive"
    ELSE IF ~VerifyDayValid(day, pools[p]) THEN "InvalidDay"
    ELSE "Ok"

VerifyDaysVerifiedOverwrite(part, day) == day

VerifyDaysVerified(part, day) == Max(part.days_verified, day)

VerifyPassedStrict(part, pool, day) ==
    LET dv == VerifyDaysVerified(part, day)
    IN [part EXCEPT !.days_verified = dv,
                    !.status = IF dv > pool.duration_days
                                 THEN "Success" ELSE part.status]

VerifyPassed(part, pool, day) ==
    LET dv == VerifyDaysVerified(part, day)
    IN [part EXCEPT !.days_verified = dv,
                    !.status = IF dv >= pool.duration_days
                                 THEN "Success" ELSE part.status]

VerifyFailedLenient(part) ==
    IF part.days_verified = 0 THEN [part EXCEPT !.status = "Failed"] ELSE part

VerifyFailed(part) == [part EXCEPT !.status = "Failed"]

VerifyOutcome(part, pool, day, passed) ==
    IF passed THEN VerifyPassed(part, pool, day) ELSE VerifyFailed(part)

\* One verify_participant instruction with the given accounts and arguments.
VerifyParticipantCall(p, w, signer, day, passed) ==
    LET err == VerifyParticipantError(p, w, day)
    IN /\ last' = Call("verify_participant", p, w, signer, passed, err)
       /\ IF err = "Ok"
            THEN participants' = [participants EXCEPT ![<<p, w>>] =
                    VerifyOutcome(participants[<<p, w>>], pools[p], day, passed)]
            ELSE UNCHANGED participants
       /\ UNCHANGED <<pools, lamports, vault, now>>

VerifyParticipant ==
    \E p \in PoolIds, w \in Wallets, signer \in Wallets,
       day \in DayChoices, passed \in BOOLEAN :
        VerifyParticipantCall(p, w, signer, day, passed)

\* ------------------------------------------------------------------------
\* forfeit (instructions/forfeit.rs; the handler is not dispatched by lib.rs)
\* ------------------------------------------------------------------------
ForfeitParticipantActive(part) == part.status = "Active"

ForfeitPoolErrorAnySigner(p, w, signer) ==
    IF ~pools[p].exists \/ ~participants[<<p, w>>].exists
        THEN "AccountNotInitialized"
    ELSE IF pools[p].pool_status # "Active" THEN "PoolNotActive"
    ELSE IF ~ForfeitParticipantActive(participants[<<p, w>>]) THEN "PoolNotActive"
    ELSE "Ok"

ForfeitPoolError(p, w, signer) ==
    IF ~pools[p].exists \/ ~participants[<<p, w>>].exists
        THEN "AccountNotInitialized"
    ELSE IF pools[p].pool_status # "Active" THEN "PoolNotActive"
    ELSE IF participants[<<p, w>>].wallet # signer THEN "Unauthorized"
    ELSE IF ~ForfeitParticipantActive(participants[<<p, w>>]) THEN "PoolNotActive"
    ELSE "Ok"

ForfeitPool ==
    \E p \in PoolIds, w \in Wallets, signer \in Wallets :
        LET err == ForfeitPoolError(p, w, signer)
        IN /\ last' = Call("forfeit", p, w, signer, FALSE, err)
           /\ IF err = "Ok"
                THEN participants' = [participants EXCEPT
                        ![<<p, w>>].status = "Forfeit"]
                ELSE UNCHANGED participants
           /\ UNCHANGED <<pools, lamports, vault, now>>

\* ------------------------------------------------------------------------
\* distribute_rewards
\* ------------------------------------------------------------------------
DistributeRewardsErrorOnceOnly(p) ==
    IF ~pools[p].exists THEN "AccountNotInitialized"
    ELSE IF ~(pools[p].pool_status \in {"Active", "Ended"}
                /\ now >= pools[p].end_timestamp)
        THEN "PoolNotEnded"
    ELSE "Ok"

DistributeRewardsErrorNoDeadline(p) ==
    IF ~pools[p].exists THEN "AccountNotInitialized" ELSE "Ok"

DistributeRewardsError(p) ==
    IF ~pools[p].exists THEN "AccountNotInitialized"
    ELSE IF ~(pools[p].pool_status = "Ended" \/ now >= pools[p].end_timestamp)
        THEN "PoolNotEnded"
    ELSE "Ok"

MarkEnded(pool) ==
    IF pool.pool_status = "Active"
        THEN [pool EXCEPT !.pool_status = "Ended"] ELSE pool

MarkSettledNoop(pool) == pool

MarkSettled(pool) == [pool EXCEPT !.pool_status = "Settled"]

DistributeRewards ==
    \E p \in PoolIds, signer \in Wallets :
        LET err == DistributeRewardsError(p)
        IN /\ last' = Call("distribute_rewards", p, 0, signer, FALSE, err)
           /\ IF err = "Ok"
                THEN pools' = [pools EXCEPT ![p] = MarkSettled(MarkEnded(pools[p]))]
                ELSE UNCHANGED pools
           /\ UNCHANGED <<participants, lamports, vault, now>>

Next ==
    \/ Tick
    \/ CreatePool
    \/ JoinPool
    \/ VerifyParticipant
    \/ ForfeitPool
    \/ DistributeRewards

Spec == Init /\ [][Next]_vars

\* ------------------------------------------------------------------------
\* Vocabulary of the properties
\* ------------------------------------------------------------------------
ExistingPools == {p \in PoolIds : pools[p].exists}

ParticipantsOf(p) == {w \in Wallets : participants[<<p, w>>].exists}

Winners(p) == {w \in ParticipantsOf(p) : participants[<<p, w>>].status = "Success"}

Terminal == {"Success", "Failed", "Forfeit"}

\* The step is one call of the instruction op (the clock does not move) on
\* pool p.
IsCall(op, p) == now' = now /\ vars' # vars /\ last'.op = op /\ last'.pool = p

\* C1: in every reachable state every pool satisfies
\* total_staked = participant_count * stake_amount.
C1_TotalStakedIsCountTimesStake ==
    \A p \in ExistingPools :
        pools[p].total_staked = pools[p].participant_count * pools[p].stake_amount

\* C1 witness: a pool with two stakes, after joins, verifications, a
\* settlement and a failed call.
C1_Witness ==
    \E p \in ExistingPools :
        /\ pools[p].participant_count = 2
        /\ pools[p].total_staked = 2 * pools[p].stake_amount
        /\ pools[p].pool_status = "Settled"
        /\ Winners(p) # {}
        /\ last.err # "Ok"

\* C2 as stated: participant_count never exceeds max_participants, and a
\* joinPool attempted on a pool with participant_count = max_participants
\* fails with PoolFull, leaving participant_count and total_staked unchanged.
\* Read in its narrowest sense: the attempt of a wallet that has not joined.
C2_JoinOnFullPoolFailsPoolFull ==
    [][\A p \in ExistingPools :
          /\ pools'[p].participant_count <= pools'[p].max_participants
          /\ (IsCall("join_pool", p)
                /\ ~participants[<<p, last'.wallet>>].exists
                /\ pools[p].participant_count = pools[p].max_participants)
             => /\ last'.err = "PoolFull"
                /\ pools'[p].participant_count = pools[p].participant_count
                /\ pools'[p].total_staked = pools[p].total_staked]_vars

\* C2 amended: participant_count never exceeds max_participants, and a
\* joinPool attempted on a pool with participant_count = max_participants
\* always fails, leaving participant_count and total_staked unchanged; the
\* error is PoolFull when the pool is Active and the wallet has no Participant
\* account in it, PoolNotActive when the pool is Settled and the wallet has no
\* Participant account in it, and the account-initialisation error when the
\* wallet has already joined.
C2_JoinOnFullPoolFails ==
    [][\A p \in ExistingPools :
          /\ pools'[p].participant_count <= pools'[p].max_participants
          /\ (IsCall("join_pool", p)
                /\ pools[p].participant_count = pools[p].max_participants)
             => /\ last'.err # "Ok"
                /\ pools'[p].participant_count = pools[p].participant_count
                /\ pools'[p].total_staked = pools[p].total_staked
                /\ last'.err =
                     IF participants[<<p, last'.wallet>>].exists
                        THEN "AccountInUse"
                     ELSE IF pools[p].pool_status = "Active" THEN "PoolFull"
                     ELSE "PoolNotActive"]_vars

\* C2 witness: a join was refused with PoolFull on a pool that holds
\* max_participants participants.
C2_Witness ==
    \E p \in ExistingPools :
        /\ last.op = "join_pool" /\ last.pool = p /\ last.err = "PoolFull"
        /\ pools[p].participant_count = pools[p].max_participants
        /\ ~participants[<<p, last.wallet>>].exists

\* C3: a verify_participant or distribute_rewards call signed by anyone but
\* the pool's authority is rejected (Unauthorized) and changes neither the
\* pool nor any participant.  Stated without the error kind, so that a call
\* another check rejects first is not counted as a violation.
C3_OnlyAuthorityVerifiesAndSettles ==
    [][\A p \in ExistingPools :
          ((IsCall("verify_participant", p) \/ IsCall("distribute_rewards", p))
             /\ last'.signer # pools[p].authority)
          => /\ last'.err # "Ok"
             /\ UNCHANGED <<pools, participants>>]_vars

\* C4: a pool is Settled only after every classified recipient (each winner
\* and the charity target) has been paid from the vault.  The payouts of a
\* settlement add up to total_staked, so a Settled pool's vault holds none of
\* the stakes any more.
C4_SettledOnlyAfterPayouts ==
    \A p \in ExistingPools :
        pools[p].pool_status = "Settled" => vault[p] = 0

\* C5: a Competitive pool in which no participant has status Success never
\* becomes Settled (settle fails with NoWinners and the pool stays Ended).
C5_CompetitiveNoWinnersNeverSettled ==
    \A p \in ExistingPools :
        (/\ pools[p].distribution_mode.kind = "Competitive"
         /\ pools[p].participant_count >= 1
         /\ Winners(p) = {})
        => pools[p].pool_status # "Settled"

\* The payout of each winner under the pool's distribution mode (section 4.4
\* of the specification), for a pool with at least one winner.
ExpectedWinnerPayout(p) ==
    LET pool == pools[p]
        n == Cardinality(Winners(p))
        losers_total_stake == (pool.participant_count - n) * pool.stake_amount
    IN CASE pool.distribution_mode.kind = "Competitive" ->
                pool.stake_amount + (losers_total_stake \div n)
         [] pool.distribution_mode.kind = "Charity" -> pool.stake_amount
         [] pool.distribution_mode.kind = "Split" ->
                ((pool.total_staked * pool.distribution_mode.winner_percent)
                    \div 100) \div n

\* C6: a successful settle of a pool with winners pays every winner the
\* amount its distribution mode prescribes and the rest of total_staked to the
\* charity target, so that the vault pays out exactly total_staked.
C6_SettlePaysByMode ==
    [][\A p \in ExistingPools :
          (/\ IsCall("distribute_rewards", p)
           /\ last'.err = "Ok"
           /\ pools[p].pool_status # "Settled"
           /\ Winners(p) # {})
          => LET paid == ExpectedWinnerPayout(p)
                 n == Cardinality(Winners(p))
                 charity == pools[p].charity_address
             IN /\ \A w \in Winners(p) : lamports'[w] = lamports[w] + paid
                /\ lamports'[charity] =
                     lamports[charity] + (pools[p].total_staked - n * paid)
                /\ vault'[p] = vault[p] - pools[p].total_staked]_vars

StatusRank(st) ==
    CASE st = "Pending" -> 0 [] st = "Active" -> 1
      [] st = "Ended" -> 2 [] st = "Settled" -> 3

\* C7: pool status never regresses: in every step each pool's status keeps or
\* raises its rank in Pending < Active < Ended < Settled, and a Settled pool
\* stays Settled.
C7_PoolStatusNeverRegresses ==
    [][\A p \in ExistingPools :
          /\ pools'[p].exists
          /\ StatusRank(pools'[p].pool_status) >= StatusRank(pools[p].pool_status)
          /\ (pools[p].pool_status = "Settled"
                => pools'[p].pool_status = "Settled")]_vars

\* C7 witness: a pool that went Pending -> Active -> Settled and then saw a
\* further instruction.
C7_Witness ==
    \E p \in ExistingPools :
        /\ pools[p].pool_status = "Settled"
        /\ pools[p].participant_count >= 1
        /\ last.pool = p
        /\ last.op \in {"join_pool", "create_pool", "verify_participant"}

\* C8: once a participant is Success, Failed or Forfeit, every later
\* verify_participant or forfeit for it is rejected, and its status and
\* days_verified never change again.
C8_TerminalParticipantIsFrozen ==
    [][\A p \in PoolIds : \A w \in ParticipantsOf(p) :
          participants[<<p, w>>].status \in Terminal
          => /\ participants'[<<p, w>>] = participants[<<p, w>>]
             /\ ((IsCall("verify_participant", p) \/ IsCall("forfeit", p))
                    /\ last'.wallet = w)
                => last'.err # "Ok"]_vars

\* C8 witness: an Active pool rejected a verification of a participant that
\* had already reached a terminal status.
C8_Witness ==
    \E p \in ExistingPools :
        /\ pools[p].pool_status = "Active"
        /\ last.op = "verify_participant" /\ last.pool = p
        /\ last.passed
        /\ last.err = "PoolNotActive"
        /\ participants[<<p, last.wallet>>].exists
        /\ participants[<<p, last.wallet>>].status \in Terminal

\* C9: fail-fast: a successful verify_participant with passed = FALSE leaves
\* the participant Failed, whatever the day and the days verified before.
C9_FailFast ==
    [][\A p \in PoolIds : \A w \in ParticipantsOf(p) :
          (/\ IsCall("verify_participant", p)
           /\ last'.wallet = w
           /\ last'.err = "Ok"
           /\ ~last'.passed)
          => /\ participants[<<p, w>>].status = "Active"
             /\ participants'[<<p, w>>].status = "Failed"]_vars

\* C9 witness: a participant whose earlier days all passed was failed by one
\* failed day.
C9_Witness ==
    \E p \in ExistingPools :
        /\ last.op = "verify_participant" /\ last.pool = p
        /\ last.err = "Ok" /\ ~last.passed
        /\ participants[<<p, last.wallet>>].status = "Failed"
        /\ participants[<<p, last.wallet>>].days_verified
             = pools[p].duration_days - 1

\* C10: days_verified never decreases and never exceeds the pool's
\* duration_days.
C10_DaysVerifiedMonotoneAndBounded ==
    [][\A p \in PoolIds : \A w \in Wallets :
          participants'[<<p, w>>].exists
          => /\ participants'[<<p, w>>].days_verified <= pools'[p].duration_days
             /\ participants[<<p, w>>].exists
                => participants'[<<p, w>>].days_verified
                     >= participants[<<p, w>>].days_verified]_vars

\* C10 witness: a passed report accepted for a participant that stays Active
\* with days_verified one short of duration_days (the report was for that day,
\* or a re-submitted or earlier day).
C10_Witness ==
    \E p \in ExistingPools :
        /\ last.op = "verify_participant" /\ last.pool = p
        /\ last.err = "Ok" /\ last.passed
        /\ participants[<<p, last.wallet>>].status = "Active"
        /\ participants[<<p, last.wallet>>].days_verified
             = pools[p].duration_days - 1
        /\ pools[p].duration_days >= 3

\* C11: settlement is idempotent: distribute_rewards on a Settled pool
\* succeeds and changes no account, so settling twice leaves the state that
\* settling once left.
C11_SettleIsIdempotent ==
    [][\A p \in ExistingPools :
          (IsCall("distribute_rewards", p) /\ pools[p].pool_status = "Settled")
          => /\ last'.err = "Ok"
             /\ UNCHANGED accounts]_vars

\* C11 witness: a Settled pool with stakes whose latest instruction is a
\* successful distribute_rewards signed by a wallet other than the authority
\* (the state a repeated settlement by another signer reaches).
C11_Witness ==
    \E p \in ExistingPools :
        /\ pools[p].pool_status = "Settled"
        /\ pools[p].participant_count >= 1
        /\ last.op = "distribute_rewards" /\ last.pool = p
        /\ last.err = "Ok"
        /\ last.signer # pools[p].authority

\* C12: no pool is Ended or Settled before its end_timestamp:
\* distribute_rewards on a Pending or Active pool while now < end_timestamp
\* fails with PoolNotEnded and leaves the pool as it was.
C12_NoSettlementBeforeDeadline ==
    [][\A p \in ExistingPools :
          /\ pools'[p].pool_status \in {"Ended", "Settled"}
                => now' >= pools'[p].end_timestamp
          /\ (/\ IsCall("distribute_rewards", p)
              /\ pools[p].pool_status \in {"Pending", "Active"}
              /\ now < pools[p].end_timestamp)
             => /\ last'.err = "PoolNotEnded"
                /\ pools'[p] = pools[p]]_vars

\* C12 witness: an Active pool refused a settlement before its deadline.
C12_Witness ==
    \E p \in ExistingPools :
        /\ pools[p].pool_status = "Active"
        /\ now < pools[p].end_timestamp
        /\ last.op = "distribute_rewards" /\ last.pool = p
        /\ last.err = "PoolNotEnded"

\* C13: under every interleaving of join_pool transactions on a pool the
\* successful joins never exceed max_participants and none is lost:
\* participant_count is the number of participant accounts of the pool, it
\* never exceeds max_participants, and the vault holds one stake for each.
C13_JoinsAreSerialised ==
    \A p \in ExistingPools :
        /\ pools[p].participant_count = Cardinality(ParticipantsOf(p))
        /\ pools[p].participant_count <= pools[p].max_participants
        /\ vault[p] = pools[p].participant_count * pools[p].stake_amount

\* C13 witness: the join that found participant_count = max_participants - 1
\* succeeded and filled a pool of two.
C13_Witness ==
    \E p \in ExistingPools :
        /\ pools[p].max_participants = 2
        /\ pools[p].participant_count = 2
        /\ Cardinality(ParticipantsOf(p)) = 2
        /\ last.op = "join_pool" /\ last.pool = p /\ last.err = "Ok"

\* C14: at most one Participant per (pool, wallet): join_pool by a wallet
\* that already has a Participant account in the pool fails at the init of
\* that account (the AlreadyJoined case) and changes neither the pool's
\* aggregates, the vault, any balance nor the existing Participant.
C14_SecondJoinIsRejected ==
    [][\A p \in ExistingPools :
          (IsCall("join_pool", p) /\ participants[<<p, last'.wallet>>].exists)
          => /\ last'.err = "AccountInUse"
             /\ UNCHANGED accounts]_vars

\* C14 witness: a participant with verified days tried to join its pool again.
C14_Witness ==
    \E p \in ExistingPools :
        /\ last.op = "join_pool" /\ last.pool = p
        /\ last.err = "AccountInUse"
        /\ participants[<<p, last.wallet>>].exists
        /\ participants[<<p, last.wallet>>].days_verified >= 1
        /\ pools[p].participant_count < pools[p].max_participants

\* C15: an instruction that returns an error leaves every Pool record, every
\* Participant record and every vault balance as it was.
C15_FailedCallChangesNothing ==
    [][(now' = now /\ last'.err # "Ok")
          => UNCHANGED <<pools, participants, vault>>]_vars

\* C15 witness: a rejected verification (InvalidDay) of a participant that
\* already has verified days, in a pool holding stakes.
C15_Witness ==
    \E p \in ExistingPools :
        /\ last.op = "verify_participant" /\ last.pool = p
        /\ last.err = "InvalidDay"
        /\ participants[<<p, last.wallet>>].days_verified >= 1
        /\ vault[p] > 0

\* The step is a verify_participant instruction on pool p whose day argument
\* is day (the other arguments are those the outcome records).
IsVerifyWithDay(p, day) ==
    /\ IsCall("verify_participant", p)
    /\ VerifyParticipantCall(p, last'.wallet, last'.signer, day, last'.passed)

\* C16 as stated: verify_participant with day = 0 or day > duration_days
\* fails with InvalidDay and leaves the participant as it was.
C16_InvalidDayFailsInvalidDay ==
    [][\A p \in ExistingPools : \A day \in DayChoices :
          (/\ day = 0 \/ day > pools[p].duration_days
           /\ IsVerifyWithDay(p, day)
           /\ participants[<<p, last'.wallet>>].exists)
          => /\ last'.err = "InvalidDay"
             /\ UNCHANGED participants]_vars

\* C16 amended: verify_participant with day = 0 or day > duration_days always
\* fails and leaves the participant as it was; the error is InvalidDay when
\* the pool and the participant are both Active, and PoolNotActive when
\* either of them is not.
C16_InvalidDayIsRejected ==
    [][\A p \in ExistingPools :
          (/\ IsCall("verify_participant", p)
           /\ participants[<<p, last'.wallet>>].exists)
          => \A day \in DayChoices :
                (/\ day = 0 \/ day > pools[p].duration_days
                 /\ IsVerifyWithDay(p, day))
                => /\ last'.err =
                        IF /\ pools[p].pool_status = "Active"
                           /\ participants[<<p, last'.wallet>>].status = "Active"
                          THEN "InvalidDay" ELSE "PoolNotActive"
                   /\ UNCHANGED participants]_vars

\* C16 witness: an Active pool refused a report for an Active participant
\* with InvalidDay.
C16_Witness ==
    \E p \in ExistingPools :
        /\ last.op = "verify_participant" /\ last.pool = p
        /\ last.err = "InvalidDay"
        /\ pools[p].pool_status = "Active"
        /\ participants[<<p, last.wallet>>].status = "Active"

\* C17: forfeit succeeds only when the signer is the participant's wallet and
\* the pool and the participant are Active; its only effect is the
\* participant's status becoming Forfeit: days_verified, the pool, the vault
\* and every balance stay as they were.
C17_ForfeitOnlyMarksParticipant ==
    [][\A p \in ExistingPools :
          (IsCall("forfeit", p) /\ last'.err = "Ok")
          => LET w == last'.wallet
             IN /\ participants[<<p, w>>].exists
                /\ last'.signer = participants[<<p, w>>].wallet
                /\ pools[p].pool_status = "Active"
                /\ participants[<<p, w>>].status = "Active"
                /\ participants' = [participants EXCEPT
                                        ![<<p, w>>].status = "Forfeit"]
                /\ UNCHANGED <<pools, vault, lamports>>]_vars

\* C17 witness: a participant with verified days forfeited; its stake is
\* still in the vault.
C17_Witness ==
    \E p \in ExistingPools :
        /\ last.op = "forfeit" /\ last.pool = p /\ last.err = "Ok"
        /\ participants[<<p, last.wallet>>].status = "Forfeit"
        /\ participants[<<p, last.wallet>>].days_verified >= 1
        /\ vault[p] = pools[p].total_staked
        /\ vault[p] > 0

\* C18: a participant becomes Success exactly when a passed outcome for
\* day = duration_days is accepted; a passed outcome for an earlier day leaves
\* it Active; so Success implies days_verified = duration_days and Active
\* implies days_verified < duration_days.
C18_SuccessIffLastDayPassed ==
    [][\A p \in ExistingPools :
          /\ \A w \in Wallets :
                participants'[<<p, w>>].exists
                => /\ participants'[<<p, w>>].status = "Success"
                      => participants'[<<p, w>>].days_verified
                            = pools'[p].duration_days
                   /\ participants'[<<p, w>>].status = "Active"
                      => participants'[<<p, w>>].days_verified
                            < pools'[p].duration_days
                   /\ (/\ participants[<<p, w>>].exists
                       /\ participants[<<p, w>>].status # "Success"
                       /\ participants'[<<p, w>>].status = "Success")
                      => /\ IsCall("verify_participant", p)
                         /\ last'.wallet = w
                         /\ last'.err = "Ok" /\ last'.passed
          /\ (/\ last'.op = "verify_participant" /\ last'.pool = p
              /\ last'.err = "Ok" /\ last'.passed)
             => \A day \in DayChoices :
                   IsVerifyWithDay(p, day)
                   => /\ participants[<<p, last'.wallet>>].status = "Active"
                      /\ participants'[<<p, last'.wallet>>].status =
                            IF day = pools[p].duration_days
                              THEN "Success" ELSE "Active"]_vars

\* C18 witness: the last day's passed report made a participant Success that
\* had no earlier day verified.
C18_Witness ==
    \E p \in ExistingPools :
        /\ last.op = "verify_participant" /\ last.pool = p
        /\ last.err = "Ok" /\ last.passed
        /\ participants[<<p, last.wallet>>].status = "Success"
        /\ participants[<<p, last.wallet>>].days_verified = pools[p].duration_days
        /\ \E w \in ParticipantsOf(p) :
              /\ participants[<<p, w>>].status = "Active"
              /\ participants[<<p, w>>].days_verified = pools[p].duration_days - 1

\* C19: a pool is Pending only while it has no participant: Pending implies
\* participant_count = 0 and total_staked = 0, Active implies
\* participant_count >= 1.
C19_PendingIffEmpty ==
    \A p \in ExistingPools :
        /\ pools[p].pool_status = "Pending"
              => pools[p].participant_count = 0 /\ pools[p].total_staked = 0
        /\ pools[p].pool_status = "Active" => pools[p].participant_count >= 1

\* C19 witness: the first join made a Pending pool Active.
C19_Witness ==
    \E p \in ExistingPools :
        /\ pools[p].pool_status = "Active"
        /\ pools[p].participant_count = 1
        /\ last.op = "join_pool" /\ last.pool = p /\ last.err = "Ok"

\* C20: no instruction leaves a pool Ended (the stored statuses are Pending,
\* Active and Settled), and once a pool is Settled every join_pool,
\* verify_participant and forfeit on it is rejected: its record, its vault and
\* its participants stay as they are.
C20_EndedIsNeverStoredSettledIsFrozen ==
    [][\A p \in ExistingPools :
          /\ pools'[p].pool_status \in {"Pending", "Active", "Settled"}
          /\ pools[p].pool_status = "Settled"
             => /\ pools'[p] = pools[p]
                /\ vault'[p] = vault[p]
                /\ \A w \in Wallets :
                      participants'[<<p, w>>] = participants[<<p, w>>]
                /\ (\/ IsCall("join_pool", p)
                    \/ IsCall("verify_participant", p)
                    \/ IsCall("forfeit", p))
                   => last'.err # "Ok"]_vars

\* C20 witness: a Settled pool refused the forfeit of a participant that was
\* still Active when the pool was settled.
C20_Witness ==
    \E p \in ExistingPools :
        /\ pools[p].pool_status = "Settled"
        /\ last.op = "forfeit" /\ last.pool = p
        /\ last.signer = last.wallet
        /\ last.err = "PoolNotActive"
        /\ participants[<<p, last.wallet>>].exists
        /\ participants[<<p, last.wallet>>].status = "Active"

====
